---- MODULE Spec2Model ----
(***************************************************************************)
(* Model of cuquantum/cutensornet/_internal/cirq_parser_utils.py:          *)
(* remove_measurements, unfold_circuit and get_lightcone_circuit, applied  *)
(* to cirq circuits.  A circuit is a sequence of moments, a moment a       *)
(* sequence of operations acting on pairwise disjoint qubits, an operation *)
(* a gate label with its tuple of qubits.  Qubits are LineQubit indices.   *)
(***************************************************************************)
EXTENDS Integers, Sequences, FiniteSets, TLC

\* Bounds of the model.
NQubits == 2
MaxMoments == 2
MaxOps == 2

VARIABLES heap, call, ret

vars == <<heap, call, ret>>

----------------------------------------------------------------------------
\* Python built-ins used by the code.

\* set(t) of a tuple t
Range(s) == {s[i] : i \in DOMAIN s}

\* s[::-1]
Reversed(s) == [i \in 1..Len(s) |-> s[Len(s) + 1 - i]]

\* s[ix:] for the enumerate() index ix, counted from 1 here
Rest_skip(s, ix) == SubSeq(s, ix + 1, Len(s))
Rest(s, ix) == SubSeq(s, ix, Len(s))

\* sorted(S) of a set of qubits: ascending in the qubits' natural order
RECURSIVE sorted(_)
sorted(S) ==
    IF S = {} THEN <<>>
    ELSE LET lo == CHOOSE x \in S : \A y \in S : x <= y
         IN  <<lo>> \o sorted(S \ {lo})

\* (2,) * n
TwoTuple(n) == [i \in 1..n |-> 2]

RECURSIVE Product(_)
Product(shape) ==
    IF shape = <<>> THEN 1 ELSE Head(shape) * Product(Tail(shape))

----------------------------------------------------------------------------
\* The cirq objects the code works on.

Qubits == 0..(NQubits - 1)

OneQubitGates == {"H", "M"}

Operations ==
    {[gate |-> g, qubits |-> <<q>>] : g \in OneQubitGates, q \in Qubits}
    \cup {[gate |-> "CNOT", qubits |-> <<p[1], p[2]>>] :
              p \in {x \in Qubits \X Qubits : x[1] # x[2]}}
    \cup {[gate |-> "GP", qubits |-> <<>>]}

\* cirq.Moment: its operations act on pairwise disjoint qubits
IsMoment(ops) ==
    \A i \in DOMAIN ops : \A j \in DOMAIN ops :
        i < j => Range(ops[i].qubits) \cap Range(ops[j].qubits) = {}

RECURSIVE SumTo(_, _)
SumTo(sz, m) == IF m = 0 THEN 0 ELSE sz[m] + SumTo(sz, m - 1)

\* The circuit whose m-th moment holds the next sz[m] operations of s.
Build(s, sz) ==
    [m \in 1..Len(sz) |->
        SubSeq(s, SumTo(sz, m - 1) + 1, SumTo(sz, m))]

BoundedCircuits ==
    UNION {
        {c \in {Build(s, sz) :
                    s \in [1..k -> Operations],
                    sz \in {z \in [1..m -> 0..k] : SumTo(z, m) = k}} :
            \A i \in DOMAIN c : IsMoment(c[i])} :
        m \in 0..MaxMoments, k \in 0..MaxOps}

\* The worked example: [{H(q0)}, {CNOT(q0,q1)}, {CNOT(q1,q2)}]
ExampleCircuit ==
    << <<[gate |-> "H", qubits |-> <<0>>]>>,
       <<[gate |-> "CNOT", qubits |-> <<0, 1>>]>>,
       <<[gate |-> "CNOT", qubits |-> <<1, 2>>]>> >>

Circuits == BoundedCircuits \cup {ExampleCircuit}

\* Qubits a caller may name in coned_qubits: one more than any bounded
\* circuit holds, so that a target can lie outside the circuit.
TargetQubits == 0..NQubits

Targets == SUBSET TargetQubits

----------------------------------------------------------------------------
\* cirq.Circuit methods the code calls.

\* circuit.all_qubits()
all_qubits(circuit) ==
    UNION {UNION {Range(circuit[i][j].qubits) : j \in DOMAIN circuit[i]} :
               i \in DOMAIN circuit}

\* for moment in circuit.moments: for operation in moment
RECURSIVE all_operations(_)
all_operations(circuit) ==
    IF circuit = <<>> THEN <<>>
    ELSE Head(circuit) \o all_operations(Tail(circuit))

\* isinstance(operation.gate, MeasurementGate)
predicate(operation) == operation.gate = "M"

\* circuit.has_measurements()
has_measurements(circuit) ==
    \E i \in DOMAIN circuit : \E j \in DOMAIN circuit[i] :
        predicate(circuit[i][j])

\* circuit.next_moment_operating_on(qubits, start) is None
no_next_moment_operating_on(circuit, qubits, start) ==
    \A k \in start..Len(circuit) : \A j \in DOMAIN circuit[k] :
        Range(circuit[k][j].qubits) \cap Range(qubits) = {}

\* the same, looking only for later operations that are not measurements
no_next_gate_operating_on(circuit, qubits, start) ==
    \A k \in start..Len(circuit) : \A j \in DOMAIN circuit[k] :
        predicate(circuit[k][j])
        \/ Range(circuit[k][j].qubits) \cap Range(qubits) = {}

\* circuit.are_all_measurements_terminal()
are_all_measurements_terminal_gates_only(circuit) ==
    \A i \in DOMAIN circuit : \A j \in DOMAIN circuit[i] :
        predicate(circuit[i][j]) =>
            no_next_gate_operating_on(circuit, circuit[i][j].qubits, i + 1)
are_all_measurements_terminal(circuit) ==
    \A i \in DOMAIN circuit : \A j \in DOMAIN circuit[i] :
        predicate(circuit[i][j]) =>
            no_next_moment_operating_on(circuit, circuit[i][j].qubits, i + 1)

\* circuit.findall_operations(predicate): the (moment index, operation) pairs
findall_operations(circuit) ==
    UNION {{<<i, circuit[i][j]>> :
                j \in {k \in DOMAIN circuit[i] : predicate(circuit[i][k])}} :
               i \in DOMAIN circuit}

\* circuit.batch_remove(removals): each moment without its removed operations
batch_remove(circuit, removals) ==
    [i \in DOMAIN circuit |->
        SelectSeq(circuit[i], LAMBDA op : <<i, op>> \notin removals)]

----------------------------------------------------------------------------
\* The object store: circuits are mutable objects held by reference.

ArgRef == "circuit"
CopyRef == "circuit.copy()"

\* circuit.copy(): a new object with the same moments
copy_alias(h, r) == [heap |-> h, ref |-> r]
copy(h, r) ==
    [heap |-> [x \in DOMAIN h \cup {CopyRef} |->
                  IF x = CopyRef THEN h[r] ELSE h[x]],
     ref |-> CopyRef]

\* remove_measurements(circuit): the store and the outcome of the call
remove_measurements(h, arg) ==
    LET c == copy(h, arg)
        circuit == c.ref
    IN  IF has_measurements(c.heap[circuit])
        THEN IF ~are_all_measurements_terminal(c.heap[circuit])
             THEN [heap |-> c.heap,
                   ret |-> [kind |-> "raise", error |-> "ValueError"]]
             ELSE LET measurement_gates == findall_operations(c.heap[circuit])
                  IN  [heap |-> [c.heap EXCEPT ![circuit] =
                                    batch_remove(@, measurement_gates)],
                       ret |-> [kind |-> "return", ref |-> circuit]]
        ELSE [heap |-> c.heap, ret |-> [kind |-> "return", ref |-> circuit]]

----------------------------------------------------------------------------
\* unfold_circuit.  A tensor is modelled by its shape.

\* cirq.unitary(operation): the 2^k x 2^k matrix of an operation on k qubits;
\* a measurement has no unitary and cirq.unitary raises TypeError.
has_unitary(operation) == ~predicate(operation)

unitary(operation) ==
    LET dim == Product(TwoTuple(Len(operation.qubits))) IN <<dim, dim>>

\* array.reshape(shape): defined when the sizes agree
reshape(array, shape) ==
    IF Product(array) = Product(shape) THEN shape ELSE <<"reshape error">>

\* the shape line 50 asks for
gate_shape_half(gate_qubits) == TwoTuple(Len(gate_qubits))
gate_shape(gate_qubits) == TwoTuple(2 * Len(gate_qubits))

\* asarray(tensor, dtype=dtype) keeps the shape
asarray(tensor) == tensor

\* the body of the loop of lines 47-52 for one operation
gate_entry(operation) ==
    LET gate_qubits == operation.qubits
        tensor == asarray(reshape(unitary(operation), gate_shape(gate_qubits)))
    IN  <<tensor, operation.qubits>>

unfold_circuit(circuit) ==
    LET qubits == sorted(all_qubits(circuit))
        operations == all_operations(circuit)
    IN  IF \E i \in DOMAIN operations : ~has_unitary(operations[i])
        THEN [kind |-> "raise", error |-> "TypeError"]
        ELSE [kind |-> "return",
              qubits |-> qubits,
              gates |-> [i \in DOMAIN operations |-> gate_entry(operations[i])]]

----------------------------------------------------------------------------
\* get_lightcone_circuit.

\* len(coned_qubits) == n_qubits
never_covered(coned_qubits, n_qubits) == FALSE
covered(coned_qubits, n_qubits) == Cardinality(coned_qubits) = n_qubits

\* qubit_set & coned_qubits, as a truth value
intersects_all(qubit_set, coned_qubits) == qubit_set \subseteq coned_qubits
intersects_not(qubit_set, coned_qubits) == qubit_set \cap coned_qubits = {}
intersects(qubit_set, coned_qubits) == qubit_set \cap coned_qubits # {}

\* coned_qubits |= qubit_set
union_dropped(coned_qubits, qubit_set) == coned_qubits
union(coned_qubits, qubit_set) == coned_qubits \cup qubit_set

\* Moment(reduced_moment[::-1])
Moment_unreversed(reduced_moment) == reduced_moment
Moment(reduced_moment) == Reversed(reduced_moment)

\* The loop of lines 78-85 from index iy on: the coned qubits and the
\* reduced moment it ends with.
RECURSIVE inner_loop(_, _, _, _, _)
inner_loop(reversed_operations, n_qubits, iy, coned_qubits, reduced_moment) ==
    IF iy > Len(reversed_operations)
    THEN [coned_qubits |-> coned_qubits, reduced_moment |-> reduced_moment]
    ELSE IF covered(coned_qubits, n_qubits)
    THEN [coned_qubits |-> coned_qubits,
          reduced_moment |-> reduced_moment \o Rest(reversed_operations, iy)]
    ELSE LET operation == reversed_operations[iy]
             qubit_set == Range(operation.qubits)
         IN  IF intersects(qubit_set, coned_qubits)
             THEN inner_loop(reversed_operations, n_qubits, iy + 1,
                             union(coned_qubits, qubit_set),
                             Append(reduced_moment, operation))
             ELSE inner_loop(reversed_operations, n_qubits, iy + 1,
                             coned_qubits, reduced_moment)

\* The loop of lines 71-86 from index ix on: the list moments it ends with.
RECURSIVE outer_loop(_, _, _, _, _)
outer_loop(reversed_moments, n_qubits, ix, coned_qubits, moments) ==
    IF ix > Len(reversed_moments)
    THEN moments
    ELSE IF covered(coned_qubits, n_qubits)
    THEN moments \o Rest(reversed_moments, ix)
    ELSE LET moment == reversed_moments[ix]
             reversed_operations == Reversed(moment)
             r == inner_loop(reversed_operations, n_qubits, 1,
                             coned_qubits, <<>>)
         IN  outer_loop(reversed_moments, n_qubits, ix + 1, r.coned_qubits,
                        Append(moments, Moment(r.reduced_moment)))

get_lightcone_circuit(circuit, coned_qubits) ==
    LET n_qubits == Cardinality(all_qubits(circuit))
        reversed_moments == Reversed(circuit)
        moments == outer_loop(reversed_moments, n_qubits, 1, coned_qubits, <<>>)
    IN  Reversed(moments)

----------------------------------------------------------------------------
\* The state machine: a caller holds one circuit and calls one of the
\* functions on it.

Init ==
    /\ heap \in {[r \in {ArgRef} |-> c] : c \in Circuits}
    /\ call = [fn |-> "none"]
    /\ ret = [kind |-> "none"]

Call_remove_measurements ==
    /\ call.fn = "none"
    /\ LET r == remove_measurements(heap, ArgRef)
       IN  /\ heap' = r.heap
           /\ ret' = r.ret
    /\ call' = [fn |-> "remove_measurements"]

Call_unfold_circuit ==
    /\ call.fn = "none"
    /\ ret' = unfold_circuit(heap[ArgRef])
    /\ call' = [fn |-> "unfold_circuit"]
    /\ UNCHANGED heap

Call_get_lightcone_circuit(coned_qubits) ==
    /\ call.fn = "none"
    /\ ret' = [kind |-> "return",
               circuit |-> get_lightcone_circuit(heap[ArgRef], coned_qubits)]
    /\ call' = [fn |-> "get_lightcone_circuit", coned_qubits |-> coned_qubits]
    /\ UNCHANGED heap

Next ==
    \/ Call_remove_measurements
    \/ Call_unfold_circuit
    \/ \E coned_qubits \in Targets : Call_get_lightcone_circuit(coned_qubits)

Spec == Init /\ [][Next]_vars

----------------------------------------------------------------------------
\* Vocabulary of the properties.

\* The circuit the caller passed.
Input == heap[ArgRef]

LightconeDone == call.fn = "get_lightcone_circuit"

RECURSIVE IsSubseq(_, _)
IsSubseq(a, b) ==
    IF a = <<>> THEN TRUE
    ELSE IF b = <<>> THEN FALSE
    ELSE IF Head(a) = Head(b) THEN IsSubseq(Tail(a), Tail(b))
    ELSE IsSubseq(a, Tail(b))

\* The positions <<moment, index>> of a circuit's operations.
Positions(c) ==
    UNION {{<<m, j>> : j \in DOMAIN c[m]} : m \in DOMAIN c}

QubitsAt(c, p) == Range(c[p[1]][p[2]].qubits)

\* The plain backward filter over the operations in reverse order: keep an
\* operation iff its qubits meet the active set, and then add them to it.
RECURSIVE PlainFilter(_, _, _, _)
PlainFilter(rev, i, active, kept) ==
    IF i > Len(rev) THEN Reversed(kept)
    ELSE IF Range(rev[i].qubits) \cap active # {}
    THEN PlainFilter(rev, i + 1, active \cup Range(rev[i].qubits),
                     Append(kept, rev[i]))
    ELSE PlainFilter(rev, i + 1, active, kept)

\* The positions with a chain to the target T: S grown by every position
\* that shares a qubit with a position of S in a strictly later moment.
RECURSIVE ChainClosure(_, _)
ChainClosure(c, S) ==
    LET more == {p \in Positions(c) :
                    \E q \in S : q[1] > p[1]
                                 /\ QubitsAt(c, p) \cap QubitsAt(c, q) # {}}
    IN  IF more \subseteq S THEN S ELSE ChainClosure(c, S \cup more)

Connected(c, T) ==
    ChainClosure(c, {p \in Positions(c) : QubitsAt(c, p) \cap T # {}})

\* The circuit c with only the operations at the positions P.
KeepAt(c, P) ==
    [m \in DOMAIN c |->
        LET idx == sorted({j \in DOMAIN c[m] : <<m, j>> \in P})
        IN  [k \in DOMAIN idx |-> c[m][idx[k]]]]

\* A measurement followed later by another operation on one of its qubits.
NonTerminal(c) ==
    \E p \in Positions(c) : \E q \in Positions(c) :
        /\ c[p[1]][p[2]].gate = "M"
        /\ q[1] > p[1]
        /\ QubitsAt(c, p) \cap QubitsAt(c, q) # {}

NonMeasurements(ops) == SelectSeq(ops, LAMBDA op : op.gate # "M")

H(q) == [gate |-> "H", qubits |-> <<q>>]
CNOT(a, b) == [gate |-> "CNOT", qubits |-> <<a, b>>]

----------------------------------------------------------------------------
\* C1: for any circuit and any target set, inside the circuit's qubits or
\* not, the operations get_lightcone_circuit returns are those of the plain
\* backward filter, in the same order.
CE_C1 ==
    LightconeDone =>
        all_operations(ret.circuit) =
            PlainFilter(Reversed(all_operations(Input)), 1,
                        call.coned_qubits, <<>>)

\* C2: when every operation acts on a qubit and the target lies inside the
\* circuit's qubits, the operations retained are exactly those with a chain
\* of qubit-sharing operations in strictly later moments to the target.
Thm_C2 ==
    (/\ LightconeDone
     /\ call.coned_qubits \subseteq all_qubits(Input)
     /\ \A p \in Positions(Input) : QubitsAt(Input, p) # {})
    => ret.circuit = KeepAt(Input, Connected(Input, call.coned_qubits))

\* A two-qubit gate retained through one active qubit while a later
\* operation is dropped.
Wit_C2 ==
    /\ LightconeDone
    /\ call.coned_qubits \subseteq all_qubits(Input)
    /\ \A p \in Positions(Input) : QubitsAt(Input, p) # {}
    /\ \E p \in Connected(Input, call.coned_qubits) :
          /\ Cardinality(QubitsAt(Input, p)) > 1
          /\ ~(QubitsAt(Input, p) \subseteq call.coned_qubits)
    /\ Positions(Input) \ Connected(Input, call.coned_qubits) # {}

\* C3 as stated: on the example, target {q2} keeps the two CNOTs and drops
\* H(q0), and target {q0} keeps H(q0) alone.
CE_C3 ==
    (LightconeDone /\ Input = ExampleCircuit) =>
        /\ call.coned_qubits = {2} =>
              all_operations(ret.circuit) = <<CNOT(0, 1), CNOT(1, 2)>>
        /\ call.coned_qubits = {0} =>
              all_operations(ret.circuit) = <<H(0)>>

\* C3 amended: on the example, target {q2} keeps all three operations, and
\* target {q0} keeps H(q0) and CNOT(q0,q1) and drops CNOT(q1,q2).
Thm_C3 ==
    (LightconeDone /\ Input = ExampleCircuit) =>
        /\ call.coned_qubits = {2} => ret.circuit = ExampleCircuit
        /\ call.coned_qubits = {0} =>
              ret.circuit = << <<H(0)>>, <<CNOT(0, 1)>>, <<>> >>

Wit_C3 ==
    /\ LightconeDone
    /\ Input = ExampleCircuit
    /\ call.coned_qubits = {2}
    /\ Len(all_operations(ret.circuit)) = Len(all_operations(ExampleCircuit))

\* C4 as stated: on a circuit with a non-terminal measurement
\* remove_measurements fails with an UnsupportedCircuitError.
CE_C4 ==
    (call.fn = "remove_measurements" /\ NonTerminal(Input)) =>
        ret.kind = "raise" /\ ret.error = "UnsupportedCircuitError"

\* C4 amended: on a circuit with a non-terminal measurement
\* remove_measurements raises ValueError and returns no circuit.
Thm_C4 ==
    (call.fn = "remove_measurements" /\ NonTerminal(Input)) =>
        ret.kind = "raise" /\ ret.error = "ValueError"

\* A measurement followed by a second measurement of the same qubit.
Wit_C4 ==
    /\ call.fn = "remove_measurements"
    /\ ret.kind = "raise"
    /\ \E p \in Positions(Input) : \E q \in Positions(Input) :
          /\ q[1] > p[1]
          /\ Input[p[1]][p[2]].gate = "M"
          /\ Input[q[1]][q[2]] = Input[p[1]][p[2]]

\* C5: when every measurement is terminal, remove_measurements returns a
\* circuit without measurements whose other operations are those of the
\* input in the same order, and the circuit passed in is left as it was.
Thm_C5 ==
    [][(/\ call.fn = "none"
        /\ call'.fn = "remove_measurements"
        /\ ~NonTerminal(heap[ArgRef]))
       => /\ ret'.kind = "return"
          /\ all_operations(heap'[ret'.ref]) =
                NonMeasurements(all_operations(heap[ArgRef]))
          /\ heap'[ArgRef] = heap[ArgRef]]_vars

\* A terminal measurement has been stripped.
Wit_C5 ==
    /\ call.fn = "remove_measurements"
    /\ ret.kind = "return"
    /\ has_measurements(Input)
    /\ ~has_measurements(heap[ret.ref])
    /\ all_operations(heap[ret.ref]) # <<>>

\* C6: with the target T inside the circuit's qubits, every operation
\* retained for a subset S of T is retained for T.
Thm_C6 ==
    (LightconeDone /\ call.coned_qubits \subseteq all_qubits(Input)) =>
        \A S \in SUBSET call.coned_qubits :
            LET small == get_lightcone_circuit(Input, S)
            IN  /\ Len(small) = Len(ret.circuit)
                /\ \A i \in DOMAIN small : IsSubseq(small[i], ret.circuit[i])

\* A proper subset of the target that retains some operations, but fewer.
Wit_C6 ==
    /\ LightconeDone
    /\ call.coned_qubits \subseteq all_qubits(Input)
    /\ \E S \in SUBSET call.coned_qubits :
          LET small == all_operations(get_lightcone_circuit(Input, S))
          IN  /\ small # <<>>
              /\ Len(small) < Len(all_operations(ret.circuit))

\* C7: with the target equal to the circuit's full qubit set, the circuit
\* returned has the moments and operations of the input, in the same order.
Thm_C7 ==
    (LightconeDone /\ call.coned_qubits = all_qubits(Input)) =>
        ret.circuit = Input

\* Full target on a circuit holding an operation without qubits, or on the
\* empty circuit.
Wit_C7 ==
    /\ LightconeDone
    /\ call.coned_qubits = all_qubits(Input)
    /\ call.coned_qubits # {}
    /\ \E p \in Positions(Input) : QubitsAt(Input, p) = {}

\* C8: the operations returned are a subsequence of the input's operations,
\* so never more of them.
Thm_C8 ==
    LightconeDone =>
        /\ IsSubseq(all_operations(ret.circuit), all_operations(Input))
        /\ Len(all_operations(ret.circuit)) <= Len(all_operations(Input))

\* Two operations of one moment retained by the filter itself.
Wit_C8 ==
    /\ LightconeDone
    /\ Cardinality(call.coned_qubits) # Cardinality(all_qubits(Input))
    /\ \E i \in DOMAIN ret.circuit :
          /\ Len(ret.circuit[i]) > 1
          /\ ret.circuit[i][1] # ret.circuit[i][2]

\* C9: the circuit returned has as many moments as the input, its i-th
\* moment holds only operations of the input's i-th moment, and a moment
\* that loses all its operations stays as an empty moment.
Thm_C9 ==
    LightconeDone =>
        /\ Len(ret.circuit) = Len(Input)
        /\ \A i \in DOMAIN Input : IsSubseq(ret.circuit[i], Input[i])

\* A moment emptied by the filter, before a moment that keeps an operation.
Wit_C9 ==
    /\ LightconeDone
    /\ \E i \in DOMAIN ret.circuit :
          /\ ret.circuit[i] = <<>>
          /\ Input[i] # <<>>
          /\ \E k \in DOMAIN ret.circuit : k > i /\ ret.circuit[k] # <<>>

\* What C10 promises of an unfold_circuit call.
UnfoldContract ==
    /\ ret.kind = "return"
    /\ Len(ret.qubits) = Cardinality(all_qubits(Input))
    /\ Range(ret.qubits) = all_qubits(Input)
    /\ \A i \in DOMAIN ret.qubits : \A j \in DOMAIN ret.qubits :
          i < j => ret.qubits[i] < ret.qubits[j]
    /\ Len(ret.gates) = Len(all_operations(Input))
    /\ \A i \in DOMAIN ret.gates :
          LET op == all_operations(Input)[i]
              tensor == ret.gates[i][1]
          IN  /\ ret.gates[i][2] = op.qubits
              /\ Len(tensor) = 2 * Len(op.qubits)
              /\ \A d \in DOMAIN tensor : tensor[d] = 2

\* C10 as stated: for any circuit, unfold_circuit returns the sorted qubits
\* and one (tensor, qubits) entry per operation, in order, of rank 2k.
CE_C10 ==
    call.fn = "unfold_circuit" => UnfoldContract

\* C10 amended: the same, for any circuit whose operations all have a
\* unitary (no measurement among them).
Thm_C10 ==
    (/\ call.fn = "unfold_circuit"
     /\ \A p \in Positions(Input) : has_unitary(Input[p[1]][p[2]]))
    => UnfoldContract

\* A circuit with a two-qubit gate and another operation, unfolded.
Wit_C10 ==
    /\ call.fn = "unfold_circuit"
    /\ ret.kind = "return"
    /\ Len(ret.gates) > 1
    /\ \E i \in DOMAIN ret.gates : Len(ret.gates[i][2]) > 1

============================================================================
